---- MODULE Spec2Model ----
(***************************************************************************)
(* A model of the pieces of the multispeaker synthesis repository:         *)
(*   - RandomCycler (speaker_encoder/data_objects/random_cycler.py):       *)
(*     SpecCycler;                                                         *)
(*   - the location sensitive attention LSA and the decode loops of        *)
(*     Tacotron.forward and Tacotron.generate                              *)
(*     (synthesizer/models/tacotron.py): SpecGen (generation, long loops), *)
(*     SpecAttn (attention with varied logits, calls one after the other), *)
(*     SpecConc (two calls whose decoder steps interleave), SpecFrames     *)
(*     (frame groups and the step counter, every r), SpecCkpt (save/load); *)
(*   - _normalize / _denormalize and the cached mel basis                  *)
(*     (synthesizer/audio_utils.py): SpecNorm, SpecMel;                    *)
(*   - ValueWindow (synthesizer/utils/torch_utils.py): SpecWindow;         *)
(*   - collate_synthesizer (synthesizer/synthesizer_dataset.py):           *)
(*     SpecCollate.                                                        *)
(* Each specification has its own next-state relation; the variables of    *)
(* the other pieces keep their initial values under it.                    *)
(***************************************************************************)
EXTENDS Integers, Sequences, FiniteSets, TLC

VARIABLES
  \* ---- RandomCycler and its caller ----
  source,      \* the collection the caller passes to RandomCycler(source)
  built_from,  \* observer: the value of that collection when the constructor ran
  cycler,      \* "absent" (not constructed) | "built" | "raised" (__init__ raised)
  raised,      \* class name of the exception __init__ raised, "" when none
  all_items,   \* self.all_items
  next_items,  \* self.next_items
  out,         \* the list the last sample() call returned
  last_op,     \* "none" | "sample" | "next": the last call made on the cycler
  last_count,  \* the count argument of that call
  fresh_call,  \* TRUE when that call was made with no item drawn before it
  next_ret,    \* the item the last __next__ returned (0 when none)
  times,       \* observer: item -> how often it has been returned so far
  since,       \* observer: item -> other items returned since its last return (-1: never returned)
  max_gap,     \* observer: largest number of other items between two consecutive returns of one item
  total,       \* observer: m, the number of items returned so far
  \* ---- Tacotron model object (shared by every call made on it) ----
  r,              \* self.decoder.r, the reduction factor
  stop_threshold, \* self.stop_threshold, in tenths (5 is 0.5)
  step,           \* self.step
  training,       \* self.training
  step_op,        \* observer: the last method entered on the model ("" when none)
  step_ret,       \* what the last get_step() returned (-1 when none)
  cumulative,     \* self.decoder.attn_net.cumulative: batch x time weights, <<>> for None
  attention,      \* self.decoder.attn_net.attention:  batch x time weights, <<>> for None
  \* ---- the local variables of the forward / generate calls in progress ----
  call,           \* caller -> the locals of its call (IdleCall when it has none)
  \* ---- checkpoints (Tacotron.save / Tacotron.load) ----
  weights,        \* the model's parameters (one number stands for all of them)
  opt_state,      \* the state of the training driver's optimizer
  checkpoint,     \* the record in the checkpoint file, <<>> when there is no file
  ckpt_op,        \* observer: the last save / load made, as [op, optimizer]
  \* ---- _normalize / _denormalize ----
  hparams,        \* symmetric_mels, allow_clipping_in_normalization, max_abs_value, min_level_db
  norm_in,        \* S, the decibel values last passed to _normalize
  norm_out,       \* what _normalize returned (<<>> when it returned nothing)
  norm_raised,    \* class name of the exception _normalize raised, "" when none
  denorm_out,     \* what _denormalize returned for norm_out (<<>> when not called)
  \* ---- the module-level mel basis cache ----
  mel_basis,      \* _mel_basis, <<>> for None
  inv_mel_basis,  \* _inv_mel_basis, <<>> for None
  mel_call,       \* observer: the last conversion, as [op, hparams, used, raised]
  builds,         \* observer: configuration -> how often _build_mel_basis built its basis
  mel_calls,      \* observer: number of conversions made
  \* ---- ValueWindow ----
  window_size,    \* self._window_size
  values,         \* self._values
  appended,       \* observer: the values appended since the last reset, in order
  \* ---- collate_synthesizer ----
  batch,          \* the batch last collated: a list of [text, mel] samples
  collate_r,      \* the r argument of that call (0 when none)
  out_chars,      \* chars, the padded texts returned
  out_mel         \* mel, the padded mel spectrograms returned

cyclerVars == <<source, built_from, cycler, raised, all_items, next_items, out, last_op,
                last_count, fresh_call, next_ret, times, since, max_gap, total>>

tacotronVars == <<r, stop_threshold, step, training, step_op, step_ret, cumulative, attention,
                  call>>

ckptVars == <<weights, opt_state, checkpoint, ckpt_op>>

normVars == <<hparams, norm_in, norm_out, norm_raised, denorm_out>>

melVars == <<mel_basis, inv_mel_basis, mel_call, builds, mel_calls>>

windowVars == <<window_size, values, appended>>

collateVars == <<batch, collate_r, out_chars, out_mel>>

\* Everything outside RandomCycler and the decode loops.
utilVars == <<ckptVars, normVars, melVars, windowVars, collateVars>>

vars == <<cyclerVars, tacotronVars, utilVars>>

\* ------------------------------------------------------------------ bounds
MaxPool == 3
MaxCount == 7
MaxTotal == 7
MaxText == 2      \* longest padded text (encoder length)
MaxBatch == 2     \* largest batch
MaxFrames == 3    \* most frames of a decode call under SpecAttn
MaxConc == 2      \* most frames of a decode call under SpecConc
MaxSteps == 13    \* largest `steps` argument of generate under SpecGen
MaxTrain == 2     \* most forward calls (self.step is capped here)
MaxWeight == 2    \* largest parameter value and largest optimizer state
MaxAbs == 2       \* largest max_abs_value
MaxDb == 2        \* lowest min_level_db is -MaxDb
MaxSpec == 2      \* most values in a spectrogram passed to _normalize
MaxMelCalls == 4  \* most mel conversions in one run
MaxWindow == 3    \* largest window_size
MaxAppends == 5   \* most appends between two resets
MaxMel == 3       \* longest mel spectrogram of a sample (frames)

\* ------------------------------------------------------------ helpers
Min(a, b) == IF a <= b THEN a ELSE b

Max(a, b) == IF a >= b THEN a ELSE b

Range(s) == {s[i] : i \in DOMAIN s}

\* The collections a caller may pass: <<>>, <<1>>, <<1,2>>, ... (distinct items).
Pools == {[i \in 1..k |-> i] : k \in 0..MaxPool}

\* ------------------------------------------------------------ RandomCycler

\* l without its i-th element.
Without(l, i) == SubSeq(l, 1, i - 1) \o SubSeq(l, i + 1, Len(l))

\* shuffle = lambda l: random.sample(l, len(l)): any ordering of l.
RECURSIVE Shuffle(_)
Shuffle(l) ==
  IF l = <<>> THEN {<<>>}
  ELSE UNION {{<<l[i]>> \o p : p \in Shuffle(Without(l, i))} : i \in DOMAIN l}

\* list(source): the copy __init__ stores. A later change of the caller's
\* collection (theirs) does not reach it.
AliasedPool(mine, theirs) == theirs

CopiedPool(mine, theirs) == mine

\* The class of the exception raised for an empty collection.
EmptyPoolRaises == "Exception"

\* `if count >= len(self.all_items)`: a whole fresh permutation is emitted.
WholeRoundStrict(count, all) == count > Len(all)

WholeRound(count, all) == count >= Len(all)

\* `if len(self.next_items) == 0`: the pending list is refilled.
RefillEarly(rest) == Len(rest) <= 1

NeedRefill(rest) == Len(rest) = 0

\* `n = min(count, len(self.next_items))`
TakeOneMore(count, nxt) == Min(count + 1, Len(nxt))

TakeLen(count, nxt) == Min(count, Len(nxt))

\* The while loop of sample(): every (out, next_items) the call may end with.
RECURSIVE SampleRun(_, _, _, _)
SampleRun(all, count, nxt, acc) ==
  IF ~(count > 0)
    THEN {[out |-> acc, next_items |-> nxt]}
    ELSE IF WholeRound(count, all)
      THEN UNION {SampleRun(all, count - Len(all), nxt, acc \o p) : p \in Shuffle(all)}
      ELSE LET n == TakeLen(count, nxt)
               taken == SubSeq(nxt, 1, n)
               rest == SubSeq(nxt, n + 1, Len(nxt))
           IN IF NeedRefill(rest)
                THEN UNION {SampleRun(all, count - n, p, acc \o taken) : p \in Shuffle(all)}
                ELSE SampleRun(all, count - n, rest, acc \o taken)

\* Observers of the returned items, folded over one returned list.
RECURSIVE ObserveTimes(_, _)
ObserveTimes(tm, o) ==
  IF o = <<>> THEN tm
  ELSE ObserveTimes([tm EXCEPT ![Head(o)] = @ + 1], Tail(o))

RECURSIVE ObserveGaps(_, _, _)
ObserveGaps(sn, mg, o) ==
  IF o = <<>> THEN [since |-> sn, max_gap |-> mg]
  ELSE LET it == Head(o)
           mg2 == IF sn[it] >= 0 THEN Max(mg, sn[it]) ELSE mg
           sn2 == [k \in DOMAIN sn |->
                     IF k = it THEN 0 ELSE IF sn[k] >= 0 THEN sn[k] + 1 ELSE sn[k]]
       IN ObserveGaps(sn2, mg2, Tail(o))

\* RandomCycler(src)
Construct(src) ==
  /\ cycler = "absent"
  /\ source' = src
  /\ built_from' = src
  /\ IF Len(src) = 0
       THEN /\ cycler' = "raised"
            /\ raised' = EmptyPoolRaises
            /\ UNCHANGED <<all_items, next_items, times, since>>
       ELSE /\ cycler' = "built"
            /\ raised' = ""
            /\ all_items' = src
            /\ next_items' = <<>>
            /\ times' = [i \in Range(src) |-> 0]
            /\ since' = [i \in Range(src) |-> -1]
  /\ UNCHANGED <<out, last_op, last_count, fresh_call, next_ret, max_gap, total>>
  /\ UNCHANGED <<tacotronVars, utilVars>>

\* The caller changes its own collection after the construction (source.pop(0)).
CallerMutatesSource ==
  /\ cycler = "built"
  /\ source = all_items
  /\ source' = Tail(source)
  /\ all_items' = CopiedPool(all_items, source')
  /\ UNCHANGED <<built_from, cycler, raised, next_items, out, last_op, last_count, fresh_call,
                 next_ret, times, since, max_gap, total>>
  /\ UNCHANGED <<tacotronVars, utilVars>>

\* sample(count)
Sample(count) ==
  /\ cycler = "built"
  /\ total + count <= MaxTotal
  /\ \E res \in SampleRun(all_items, count, next_items, <<>>) :
       /\ out' = res.out
       /\ next_items' = res.next_items
       /\ times' = ObserveTimes(times, res.out)
       /\ since' = ObserveGaps(since, max_gap, res.out).since
       /\ max_gap' = ObserveGaps(since, max_gap, res.out).max_gap
       /\ total' = total + Len(res.out)
  /\ last_op' = "sample"
  /\ last_count' = count
  /\ fresh_call' = (total = 0)
  /\ next_ret' = 0
  /\ UNCHANGED <<source, built_from, cycler, raised, all_items>>
  /\ UNCHANGED <<tacotronVars, utilVars>>

\* __next__(): self.sample(1)[0]
NextItem ==
  /\ cycler = "built"
  /\ total + 1 <= MaxTotal
  /\ \E res \in SampleRun(all_items, 1, next_items, <<>>) :
       /\ out' = res.out
       /\ next_ret' = res.out[1]
       /\ next_items' = res.next_items
       /\ times' = ObserveTimes(times, res.out)
       /\ since' = ObserveGaps(since, max_gap, res.out).since
       /\ max_gap' = ObserveGaps(since, max_gap, res.out).max_gap
       /\ total' = total + Len(res.out)
  /\ last_op' = "next"
  /\ last_count' = 1
  /\ fresh_call' = (total = 0)
  /\ UNCHANGED <<source, built_from, cycler, raised, all_items>>
  /\ UNCHANGED <<tacotronVars, utilVars>>

InitCycler ==
  /\ source = <<>>
  /\ built_from = <<>>
  /\ cycler = "absent"
  /\ raised = ""
  /\ all_items = <<>>
  /\ next_items = <<>>
  /\ out = <<>>
  /\ last_op = "none"
  /\ last_count = 0
  /\ fresh_call = FALSE
  /\ next_ret = 0
  /\ times = <<>>
  /\ since = <<>>
  /\ max_gap = 0
  /\ total = 0

NextCycler ==
  \/ \E src \in Pools : Construct(src)
  \/ CallerMutatesSource
  \/ \E count \in 0..MaxCount : Sample(count)
  \/ NextItem

\* ------------------------------------------------------------ Tacotron: values

\* Decoder.max_r
MaxR == 20

\* The literal 0.5 of `(stop_tokens > 0.5)`, in tenths.
StopCut == 5

\* The literal 10 of `t > 10`.
WarmUp == 10

\* The literal 1 of `self.step.data.new_tensor(1)` in reset_step.
ResetValue == 1

\* The calls that may be in progress on one model.
Callers == {1, 2}

\* Stop thresholds a model may be constructed with, in tenths: 0.5 and 0.7.
StopThresholds == {5, 7}

\* Stop probabilities sigmoid may give, in tenths: 0.5, 0.6 and 0.8.
StopProbs == {5, 6, 8}

\* A logit u stands for the real number u * ln 2, so that exp is exact:
\* Exp2(u) is 2 * exp(u * ln 2), and the masked logit 0 has Exp2(0) = 2.
Logits == {-1, 0, 1}

Exp2(u) == CASE u = -1 -> 1 [] u = 0 -> 2 [] u = 1 -> 4

RECURSIVE Gcd(_, _)
Gcd(a, b) == IF b = 0 THEN a ELSE Gcd(b, a % b)

RECURSIVE LcmUpTo(_)
LcmUpTo(n) == IF n <= 1 THEN 1 ELSE (n * LcmUpTo(n - 1)) \div Gcd(n, LcmUpTo(n - 1))

\* The weight 1.0: weights are whole multiples of 1 / One, and One is divisible
\* by every sum of Exp2 values a softmax over at most MaxText positions can have.
One == LcmUpTo(Exp2(1) * MaxText)

RECURSIVE SeqSum(_)
SeqSum(row) == IF row = <<>> THEN 0 ELSE Head(row) + SeqSum(Tail(row))

BatchOf(x) == Len(x)

TimeOf(x) == Len(x[1])

\* torch.zeros(b, t)
Zeros(x) == [b \in 1..BatchOf(x) |-> [p \in 1..TimeOf(x) |-> 0]]

MatAdd(a, b) == [i \in DOMAIN a |-> [p \in DOMAIN a[i] |-> a[i][p] + b[i][p]]]

\* ------------------------------------------------------------ LSA

\* `u = u * (chars != 0).float()`
MaskPadding(u, chars) ==
  [b \in DOMAIN u |-> [p \in DOMAIN u[b] |-> u[b][p] * (IF chars[b][p] # 0 THEN 1 ELSE 0)]]

\* F.softmax(u, dim=1), one row.
Softmax(row) ==
  LET z == SeqSum([p \in DOMAIN row |-> Exp2(row[p])])
  IN [p \in DOMAIN row |-> (Exp2(row[p]) * One) \div z]

\* `if t == 0: self.init_attention(encoder_seq_proj)`
ResetAlways(t) == TRUE

ResetAt(t) == t = 0

\* `self.cumulative = self.cumulative + self.attention`
Overwrite(cum, scores) == scores

Accumulate(cum, scores) == MatAdd(cum, scores)

\* LSA.forward: the scores returned and the accumulator left behind.
LSAForward(cum, u, t, chars) ==
  LET base == IF ResetAt(t) THEN Zeros(chars) ELSE cum
      masked == MaskPadding(u, chars)
      scores == [b \in DOMAIN masked |-> Softmax(masked[b])]
  IN [scores |-> scores, cumulative |-> Accumulate(base, scores)]

\* ------------------------------------------------------------ Tacotron.forward / generate

\* The locals of a call: pc ("idle" | "loop" | "post": after the loop, before
\* the return), mode, x, steps (m.size(2) or the steps argument), t (the loop
\* variable), nsteps (decoder steps run, len(mel_outputs)), hidden (the
\* recurrent state bundle, as the number of decoder steps folded into it; 0 is
\* the zero state), context (context_vec, as the scores it was computed from;
\* <<>> is the zero vector), attn_scores, mel_frames (frames in mel_outputs),
\* mel_group (frames in the group the last step appended), stop_len
\* (len(stop_outputs)), stop_group (the entries the last step added to
\* stop_outputs), stop_tokens (of the last step), exit (how the loop ended:
\* "break" | "exhausted").
IdleCall ==
  [pc |-> "idle", mode |-> "none", x |-> <<>>, steps |-> 0, t |-> 0, nsteps |-> 0,
   hidden |-> 0, context |-> <<>>, attn_scores |-> <<>>, mel_frames |-> 0,
   mel_group |-> 0, stop_len |-> 0, stop_group |-> <<>>, stop_tokens |-> <<>>, exit |-> ""]

\* The zero-initialised locals at the entry of the decode loop.
EnterLoop(mode, x, steps) ==
  [IdleCall EXCEPT !.pc = "loop", !.mode = mode, !.x = x, !.steps = steps]

\* A call's locals are its own: writing caller c's leaves the others' alone.
SharedLocal(f, c, v) == [k \in DOMAIN f |-> v]

StoreLocal(f, c, v) == [f EXCEPT ![c] = v]

\* `(stop_tokens > 0.5).all()`
AllExceed(stops, cut) == \A b \in DOMAIN stops : stops[b] > cut

\* `t > 10`
WarmedUpAt(t) == t >= WarmUp

WarmedUp(t) == t > WarmUp

\* `if (stop_tokens > 0.5).all() and t > 10: break`
BreakNow(stops, t) == AllExceed(stops, StopCut) /\ WarmedUp(t)

\* `mels.view(batch_size, self.n_mels, self.max_r)[:, :, :self.r]`: the number
\* of frames in the group one decoder step emits.
WholeProjection(rr) == MaxR

FrameGroup(rr) == Min(rr, MaxR)

\* `[stop_tokens] * self.r`: the entries one decoder step adds to stop_outputs.
StopGroup(stops, rr) == [i \in 1..rr |-> stops]

\* `self.step += 1`
KeepStep(s) == s

AddOne(s) == s + 1

\* The training driver sets model.r between calls.
SetR(v) ==
  /\ \A c \in Callers : call[c].pc = "idle"
  /\ v # r
  /\ r' = v
  /\ UNCHANGED <<stop_threshold, step, training, step_op, step_ret, cumulative, attention,
                 call, cyclerVars, utilVars>>

\* Tacotron.forward(x, m, speaker_embedding) up to the decode loop, m having msteps frames.
StartForward(c, x, msteps) ==
  /\ call[c].pc = "idle"
  /\ step < MaxTrain
  /\ step' = AddOne(step)
  /\ step_op' = "forward"
  /\ call' = StoreLocal(call, c, EnterLoop("forward", x, msteps))
  /\ UNCHANGED <<r, stop_threshold, training, step_ret, cumulative, attention, cyclerVars,
                 utilVars>>

\* Tacotron.generate(x, speaker_embedding, steps) up to the decode loop.
StartGenerate(c, x, steps) ==
  /\ call[c].pc = "idle"
  /\ training' = FALSE
  /\ step_op' = "generate"
  /\ call' = StoreLocal(call, c, EnterLoop("generate", x, steps))
  /\ UNCHANGED <<r, stop_threshold, step, step_ret, cumulative, attention, cyclerVars,
                 utilVars>>

\* One iteration of the decode loop: the for header, self.decoder(...), the
\* appends and (generate) the break test. u are the logits the attention
\* network computes, stops the stop probabilities the decoder computes.
DecodeStep(c, u, stops) ==
  LET cl == call[c]
      t == IF cl.nsteps = 0 THEN 0 ELSE cl.t + r
      att == LSAForward(cumulative, u, t, cl.x)
      broke == cl.mode = "generate" /\ BreakNow(stops, t)
      over == t + r >= cl.steps
  IN /\ cl.pc = "loop"
     /\ attention' = att.scores
     /\ cumulative' = att.cumulative
     /\ call' = StoreLocal(call, c,
          [cl EXCEPT !.t = t,
                     !.nsteps = @ + 1,
                     !.hidden = @ + 1,
                     !.context = att.scores,
                     !.attn_scores = Append(@, att.scores),
                     !.mel_frames = @ + FrameGroup(r),
                     !.mel_group = FrameGroup(r),
                     !.stop_len = @ + Len(StopGroup(stops, r)),
                     !.stop_group = StopGroup(stops, r),
                     !.stop_tokens = stops,
                     !.pc = IF broke \/ over THEN "post" ELSE "loop",
                     !.exit = IF broke THEN "break" ELSE IF over THEN "exhausted" ELSE ""])
     /\ UNCHANGED <<r, stop_threshold, step, training, step_op, step_ret, cyclerVars, utilVars>>

\* The rest of the call after the loop (torch.cat, postnet, return): the locals go.
Finish(c) ==
  /\ call[c].pc = "post"
  /\ call' = StoreLocal(call, c, IdleCall)
  /\ UNCHANGED <<r, stop_threshold, step, training, step_op, step_ret, cumulative, attention,
                 cyclerVars, utilVars>>

\* Tacotron.forward(x, m, speaker_embedding) with an m that is not 3-D: the
\* unpacking of m.size() raises, after `self.step += 1` has run.
ForwardBadTarget(c) ==
  /\ call[c].pc = "idle"
  /\ step < MaxTrain
  /\ step' = AddOne(step)
  /\ step_op' = "forward_raised"
  /\ UNCHANGED <<r, stop_threshold, training, step_ret, cumulative, attention, call,
                 cyclerVars, utilVars>>

\* Tacotron.reset_step()
ResetStep ==
  /\ step' = ResetValue
  /\ step_op' = "reset_step"
  /\ UNCHANGED <<r, stop_threshold, training, step_ret, cumulative, attention, call,
                 cyclerVars, utilVars>>

\* Tacotron.get_step()
GetStep ==
  /\ step_ret' = step
  /\ step_op' = "get_step"
  /\ UNCHANGED <<r, stop_threshold, step, training, cumulative, attention, call,
                 cyclerVars, utilVars>>

InitTacotron(thresholds) ==
  /\ r = 1
  /\ stop_threshold \in thresholds
  /\ step = 0
  /\ training = TRUE
  /\ step_op = ""
  /\ step_ret = -1
  /\ cumulative = <<>>
  /\ attention = <<>>
  /\ call = [c \in Callers |-> IdleCall]

\* ---- generation with long loops: one caller, every r, attention logits all 0
GenInputs == {[b \in 1..B |-> [p \in 1..2 |-> 1]] : B \in 1..MaxBatch}

ZeroLogits(x) == Zeros(x)

StopChoices(x) == [1..BatchOf(x) -> StopProbs]

GenStep(c) ==
  /\ call[c].pc = "loop"
  /\ \E stops \in StopChoices(call[c].x) : DecodeStep(c, ZeroLogits(call[c].x), stops)

NextGen ==
  \/ \E v \in 1..MaxR : SetR(v)
  \/ \E x \in GenInputs, n \in 1..MaxSteps : StartGenerate(1, x, n)
  \/ GenStep(1)
  \/ Finish(1)

\* ---- attention with varied logits: short loops, r in 1..2
\* A collated batch: row 1 is the longest text and fills the T positions, row
\* b > 1 is b - 1 characters shorter (at least 1 character) and zero padded.
PaddedBatch(B, T) ==
  [b \in 1..B |-> [p \in 1..T |-> IF p <= Max(1, T - (b - 1)) THEN 1 ELSE 0]]

AttnInputs == {PaddedBatch(B, T) : B \in 1..MaxBatch, T \in 1..MaxText}

\* The logits of one step: all 0, or row b peaked at position (b % T) + 1.
LogitChoices(x) ==
  {Zeros(x),
   [b \in 1..BatchOf(x) |-> [p \in 1..TimeOf(x) |->
      IF p = (b % TimeOf(x)) + 1 THEN 1 ELSE -1]]}

QuietStops(x) == [b \in 1..BatchOf(x) |-> StopCut]

AttnStep(c) ==
  /\ call[c].pc = "loop"
  /\ \E u \in LogitChoices(call[c].x) : DecodeStep(c, u, QuietStops(call[c].x))

NextAttn ==
  \/ \E v \in 1..2 : SetR(v)
  \/ \E x \in AttnInputs, n \in 1..MaxFrames : StartForward(1, x, n)
  \/ \E x \in AttnInputs, n \in 1..MaxFrames : StartGenerate(1, x, n)
  \/ AttnStep(1)
  \/ Finish(1)

\* ---- two calls on one model whose decoder steps interleave
ConcInputs == {PaddedBatch(2, 2)}

ConcStep(c) ==
  /\ call[c].pc = "loop"
  /\ \E u \in LogitChoices(call[c].x) : DecodeStep(c, u, QuietStops(call[c].x))

NextConc ==
  \/ \E c \in Callers, x \in ConcInputs, n \in 1..MaxConc : StartForward(c, x, n)
  \/ \E c \in Callers, x \in ConcInputs, n \in 1..MaxConc : StartGenerate(c, x, n)
  \/ \E c \in Callers : ConcStep(c)
  \/ \E c \in Callers : Finish(c)

\* ---- frame groups: forward and generate, one caller, every r
\* The stop probabilities of one step: every batch element the same one.
UniformStops(x) == {[b \in 1..BatchOf(x) |-> p] : p \in StopProbs}

FrameStep(c) ==
  /\ call[c].pc = "loop"
  /\ \E stops \in UniformStops(call[c].x) : DecodeStep(c, ZeroLogits(call[c].x), stops)

NextFrames ==
  \/ \E v \in 1..MaxR : SetR(v)
  \/ \E x \in GenInputs, n \in 1..MaxSteps : StartForward(1, x, n)
  \/ \E x \in GenInputs, n \in 1..MaxSteps : StartGenerate(1, x, n)
  \/ FrameStep(1)
  \/ Finish(1)

\* ---- the step counter: short calls, reset_step and get_step between them
StepInputs == {PaddedBatch(1, 1)}

StepStep(c) ==
  /\ call[c].pc = "loop"
  /\ DecodeStep(c, ZeroLogits(call[c].x), QuietStops(call[c].x))

NextStep ==
  \/ \E v \in 1..2 : SetR(v)
  \/ \E x \in StepInputs, n \in 1..MaxConc : StartForward(1, x, n)
  \/ ForwardBadTarget(1)
  \/ \E x \in StepInputs, n \in 1..MaxConc : StartGenerate(1, x, n)
  \/ StepStep(1)
  \/ Finish(1)
  \/ ResetStep
  \/ GetStep

\* ------------------------------------------------------------ Tacotron.save / load

\* self.state_dict(): the parameters and the registered buffers.
StateDict ==
  [weights |-> weights, r |-> r, step |-> step, stop_threshold |-> stop_threshold]

NoCheckpoint ==
  [exists |-> FALSE, keys |-> {}, model_state |-> <<>>, optimizer_state |-> -1]

\* The dictionary torch.save writes: keys holds the fields it has
\* (optimizer_state is -1 where the field is absent).
SavesOptimizer(withOpt) == withOpt

SavedRecord(withOpt) ==
  [exists |-> TRUE,
   keys |-> IF SavesOptimizer(withOpt) THEN {"model_state", "optimizer_state"}
                                      ELSE {"model_state"},
   model_state |-> StateDict,
   optimizer_state |-> IF SavesOptimizer(withOpt) THEN opt_state ELSE -1]

\* `if "optimizer_state" in checkpoint and optimizer is not None`
RestoresWhenGiven(keys, withOpt) == withOpt

RestoresOptimizer(keys, withOpt) == "optimizer_state" \in keys /\ withOpt

\* One training iteration of the driver: optimizer.step() changes the
\* parameters and the optimizer's state.
OptimizerStep ==
  /\ \E w \in 0..MaxWeight, o \in 1..MaxWeight :
       /\ w # weights
       /\ o # opt_state
       /\ weights' = w
       /\ opt_state' = o
  /\ ckpt_op' = [ckpt_op EXCEPT !.op = "train"]
  /\ UNCHANGED <<checkpoint, tacotronVars, cyclerVars, normVars, melVars, windowVars,
                 collateVars>>

\* Tacotron.save(path, optimizer), withOpt telling whether an optimizer is passed.
Save(withOpt) ==
  /\ checkpoint' = SavedRecord(withOpt)
  /\ ckpt_op' = [op |-> "save", optimizer |-> withOpt, raised |-> "",
                  tick |-> 1 - ckpt_op.tick]
  /\ UNCHANGED <<weights, opt_state, tacotronVars, cyclerVars, normVars, melVars, windowVars,
                 collateVars>>

\* Tacotron.load(path, optimizer) on an existing checkpoint file:
\* load_state_dict restores the parameters and the buffers, then the optimizer
\* state is read from the dictionary (a KeyError when the field is absent).
Load(withOpt) ==
  LET restore == RestoresOptimizer(checkpoint.keys, withOpt)
      found == "optimizer_state" \in checkpoint.keys
  IN /\ checkpoint.exists
     /\ weights' = checkpoint.model_state.weights
     /\ r' = checkpoint.model_state.r
     /\ step' = checkpoint.model_state.step
     /\ stop_threshold' = checkpoint.model_state.stop_threshold
     /\ opt_state' = IF restore /\ found THEN checkpoint.optimizer_state ELSE opt_state
     /\ ckpt_op' = [op |-> "load", optimizer |-> withOpt,
                     raised |-> IF restore /\ ~found THEN "KeyError" ELSE "",
                     tick |-> 1 - ckpt_op.tick]
     /\ UNCHANGED <<checkpoint, training, step_op, step_ret, cumulative, attention, call,
                    cyclerVars, normVars, melVars, windowVars, collateVars>>

InitCkpt ==
  /\ weights = 0
  /\ opt_state = 0
  /\ checkpoint = NoCheckpoint
  /\ ckpt_op = [op |-> "none", optimizer |-> FALSE, raised |-> "", tick |-> 0]

NextCkpt ==
  \/ \E v \in 1..2 : SetR(v)
  \/ ResetStep
  \/ OptimizerStep
  \/ \E withOpt \in BOOLEAN : Save(withOpt)
  \/ \E withOpt \in BOOLEAN : Load(withOpt)

\* ------------------------------------------------------------ _normalize / _denormalize

\* Exact arithmetic on fractions [n, d] (d > 0, lowest terms) stands for the
\* floating point arithmetic of numpy.
Abs(i) == IF i < 0 THEN -i ELSE i

Rat(n, d) ==
  LET g == Gcd(Abs(n), Abs(d))
      sgn == IF d < 0 THEN -1 ELSE 1
  IN [n |-> (sgn * n) \div g, d |-> (sgn * d) \div g]

RatInt(i) == [n |-> i, d |-> 1]

RatAdd(a, b) == Rat(a.n * b.d + b.n * a.d, a.d * b.d)

RatSub(a, b) == Rat(a.n * b.d - b.n * a.d, a.d * b.d)

RatMul(a, b) == Rat(a.n * b.n, a.d * b.d)

RatDiv(a, b) == Rat(a.n * b.d, a.d * b.n)

RatNeg(a) == [n |-> -a.n, d |-> a.d]

RatLe(a, b) == a.n * b.d <= b.n * a.d

\* np.clip(v, lo, hi)
NoClip(v, lo, hi) == v

Clip(v, lo, hi) == IF RatLe(v, lo) THEN lo ELSE IF RatLe(hi, v) THEN hi ELSE v

\* The configurations: symmetric or not, clipping or not, max_abs_value > 0,
\* min_level_db < 0.
Configs ==
  [symmetric_mels : BOOLEAN, allow_clipping_in_normalization : BOOLEAN,
   max_abs_value : 1..MaxAbs, min_level_db : (-MaxDb)..(-1)]

\* The configuration of the runs that are not about the audio utilities.
DefaultConfig ==
  [symmetric_mels |-> TRUE, allow_clipping_in_normalization |-> TRUE,
   max_abs_value |-> MaxAbs, min_level_db |-> -MaxDb]

\* Decibel spectrograms: 1..MaxSpec values, from below the lowest floor to above 0 dB.
Spectrograms == UNION {[1..k -> (-MaxDb - 1)..1] : k \in 1..MaxSpec}

\* `(2 * max_abs_value) * ((S - min_level_db) / (-min_level_db)) - max_abs_value`
\* or `max_abs_value * ((S - min_level_db) / (-min_level_db))`, one value.
Scale(v, hp) ==
  LET A == RatInt(hp.max_abs_value)
      M == RatInt(hp.min_level_db)
      frac == RatDiv(RatSub(v, M), RatNeg(M))
  IN IF hp.symmetric_mels
       THEN RatSub(RatMul(RatMul(RatInt(2), A), frac), A)
       ELSE RatMul(A, frac)

\* The lower end of the normalized range: -max_abs_value or 0.
NormFloor(hp) == IF hp.symmetric_mels THEN RatInt(-hp.max_abs_value) ELSE RatInt(0)

\* `assert S.max() <= 0 and S.min() - hparams.min_level_db >= 0`
MaxChecked(S, hp) == \A i \in DOMAIN S : S[i] <= 0

InRange(S, hp) ==
  /\ \A i \in DOMAIN S : S[i] <= 0
  /\ \A i \in DOMAIN S : S[i] - hp.min_level_db >= 0

\* _normalize(S, hparams): the values returned and the exception raised.
NormalizeResult(S, hp) ==
  IF hp.allow_clipping_in_normalization
    THEN [out |-> [i \in DOMAIN S |->
                     Clip(Scale(RatInt(S[i]), hp), NormFloor(hp), RatInt(hp.max_abs_value))],
          raised |-> ""]
    ELSE IF ~InRange(S, hp)
      THEN [out |-> <<>>, raised |-> "AssertionError"]
      ELSE [out |-> [i \in DOMAIN S |-> Scale(RatInt(S[i]), hp)], raised |-> ""]

\* `((D + max_abs_value) * -min_level_db / (2 * max_abs_value)) + min_level_db`
\* or `(D * -min_level_db / max_abs_value) + min_level_db`, one value.
Unscale(d, hp) ==
  LET A == RatInt(hp.max_abs_value)
      M == RatInt(hp.min_level_db)
  IN IF hp.symmetric_mels
       THEN RatAdd(RatDiv(RatMul(RatAdd(d, A), RatNeg(M)), RatMul(RatInt(2), A)), M)
       ELSE RatAdd(RatDiv(RatMul(d, RatNeg(M)), A), M)

\* _denormalize(D, hparams)
DenormalizeResult(D, hp) ==
  IF hp.allow_clipping_in_normalization
    THEN [i \in DOMAIN D |->
            Unscale(Clip(D[i], NormFloor(hp), RatInt(hp.max_abs_value)), hp)]
    ELSE [i \in DOMAIN D |-> Unscale(D[i], hp)]

\* _normalize(norm_in, hparams)
Normalize ==
  /\ norm_in # <<>>
  /\ norm_out = <<>>
  /\ norm_raised = ""
  /\ norm_out' = NormalizeResult(norm_in, hparams).out
  /\ norm_raised' = NormalizeResult(norm_in, hparams).raised
  /\ UNCHANGED <<hparams, norm_in, denorm_out, cyclerVars, tacotronVars, ckptVars, melVars,
                 windowVars, collateVars>>

\* _denormalize(norm_out, hparams) on what _normalize returned
Denormalize ==
  /\ norm_out # <<>>
  /\ denorm_out = <<>>
  /\ denorm_out' = DenormalizeResult(norm_out, hparams)
  /\ UNCHANGED <<hparams, norm_in, norm_out, norm_raised, cyclerVars, tacotronVars, ckptVars,
                 melVars, windowVars, collateVars>>

InitNorm(configs, inputs) ==
  /\ hparams \in configs
  /\ norm_in \in inputs
  /\ norm_out = <<>>
  /\ norm_raised = ""
  /\ denorm_out = <<>>

NextNorm ==
  \/ Normalize
  \/ Denormalize

\* ------------------------------------------------------------ the mel basis cache

\* The mel settings of a configuration: a usual one, one with fewer mel
\* channels, and one whose fmax is above half the sample rate.
MelConfigs ==
  {[num_mels |-> 80, fmax |-> 7600, sample_rate |-> 16000],
   [num_mels |-> 40, fmax |-> 7600, sample_rate |-> 16000],
   [num_mels |-> 80, fmax |-> 9000, sample_rate |-> 16000]}

\* None
NoBasis == [kind |-> "none", of |-> <<>>]

\* `assert hparams.fmax <= hparams.sample_rate // 2`
BuildOk(hp) == hp.fmax <= hp.sample_rate \div 2

\* librosa.filters.mel(...): the filter bank of the settings hp.
BuildMelBasis(hp) == [kind |-> "mel", of |-> hp]

\* np.linalg.pinv
Pinv(b) == [kind |-> "pinv", of |-> b.of]

\* `if _mel_basis is None`
IsNone(b) == b.kind = "none"

\* _linear_to_mel(spectogram, hp)
LinearToMel(hp) ==
  /\ mel_calls < MaxMelCalls
  /\ mel_calls' = mel_calls + 1
  /\ IF IsNone(mel_basis)
       THEN IF BuildOk(hp)
              THEN /\ mel_basis' = BuildMelBasis(hp)
                   /\ builds' = [builds EXCEPT ![hp] = @ + 1]
                   /\ mel_call' = [op |-> "linear_to_mel", hparams |-> hp,
                                    used |-> BuildMelBasis(hp), raised |-> ""]
              ELSE /\ mel_call' = [op |-> "linear_to_mel", hparams |-> hp,
                                    used |-> NoBasis, raised |-> "AssertionError"]
                   /\ UNCHANGED <<mel_basis, builds>>
       ELSE /\ mel_call' = [op |-> "linear_to_mel", hparams |-> hp,
                             used |-> mel_basis, raised |-> ""]
            /\ UNCHANGED <<mel_basis, builds>>
  /\ UNCHANGED <<inv_mel_basis, cyclerVars, tacotronVars, ckptVars, normVars, windowVars,
                 collateVars>>

\* _mel_to_linear(mel_spectrogram, hp)
MelToLinear(hp) ==
  /\ mel_calls < MaxMelCalls
  /\ mel_calls' = mel_calls + 1
  /\ IF IsNone(inv_mel_basis)
       THEN IF BuildOk(hp)
              THEN /\ inv_mel_basis' = Pinv(BuildMelBasis(hp))
                   /\ builds' = [builds EXCEPT ![hp] = @ + 1]
                   /\ mel_call' = [op |-> "mel_to_linear", hparams |-> hp,
                                    used |-> Pinv(BuildMelBasis(hp)), raised |-> ""]
              ELSE /\ mel_call' = [op |-> "mel_to_linear", hparams |-> hp,
                                    used |-> NoBasis, raised |-> "AssertionError"]
                   /\ UNCHANGED <<inv_mel_basis, builds>>
       ELSE /\ mel_call' = [op |-> "mel_to_linear", hparams |-> hp,
                             used |-> inv_mel_basis, raised |-> ""]
            /\ UNCHANGED <<inv_mel_basis, builds>>
  /\ UNCHANGED <<mel_basis, cyclerVars, tacotronVars, ckptVars, normVars, windowVars,
                 collateVars>>

InitMel ==
  /\ mel_basis = NoBasis
  /\ inv_mel_basis = NoBasis
  /\ mel_call = [op |-> "none", hparams |-> <<>>, used |-> NoBasis, raised |-> ""]
  /\ builds = [hp \in MelConfigs |-> 0]
  /\ mel_calls = 0

NextMel ==
  \/ \E hp \in MelConfigs : LinearToMel(hp)
  \/ \E hp \in MelConfigs : MelToLinear(hp)

\* ------------------------------------------------------------ ValueWindow

\* The values a caller appends (losses, step times).
WindowValues == {1, 2}

\* l[start:], start negative, zero or positive.
PySliceFrom(l, start) ==
  LET from == IF start < 0 THEN Max(start + Len(l), 0) ELSE Min(start, Len(l))
  IN SubSeq(l, from + 1, Len(l))

\* `self._values[-(self._window_size - 1):] + [x]`
Appended(vals, size, x) == PySliceFrom(vals, -(size - 1)) \o <<x>>

\* sum, count and average: average is [n, d] for the quotient n / d.
WindowSum(vals) == SeqSum(vals)

WindowCount(vals) == Len(vals)

WindowAverage(vals) == [n |-> WindowSum(vals), d |-> Max(1, WindowCount(vals))]

\* append(x)
WindowAppend(x) ==
  /\ Len(appended) < MaxAppends
  /\ values' = Appended(values, window_size, x)
  /\ appended' = Append(appended, x)
  /\ UNCHANGED <<window_size, cyclerVars, tacotronVars, ckptVars, normVars, melVars,
                 collateVars>>

\* reset()
WindowReset ==
  /\ values' = <<>>
  /\ appended' = <<>>
  /\ UNCHANGED <<window_size, cyclerVars, tacotronVars, ckptVars, normVars, melVars,
                 collateVars>>

\* ValueWindow(window_size)
InitWindow(sizes) ==
  /\ window_size \in sizes
  /\ values = <<>>
  /\ appended = <<>>

NextWindow ==
  \/ \E x \in WindowValues : WindowAppend(x)
  \/ WindowReset

\* ------------------------------------------------------------ collate_synthesizer

\* A sample: a text of k characters and a mel spectrogram (one mel channel) of
\* f frames.
Samples ==
  {[text |-> [p \in 1..k |-> p], mel |-> <<[p \in 1..f |-> 1]>>] :
     k \in 1..MaxText, f \in 1..MaxMel}

\* The non-empty batches.
CollateBatches == UNION {[1..n -> Samples] : n \in 1..MaxBatch}

RECURSIVE MaxOf(_)
MaxOf(l) == IF Len(l) = 1 THEN l[1] ELSE Max(l[1], MaxOf(Tail(l)))

\* np.pad(x, (0, max_len - len(x)), mode="constant", constant_values=pad_value)
Pad1d(x, max_len, pad_value) ==
  x \o [p \in 1..(max_len - Len(x)) |-> pad_value]

\* np.pad(x, ((0, 0), (0, max_len - x.shape[-1])), ...): every row is padded.
Pad2d(x, max_len, pad_value) ==
  [row \in DOMAIN x |-> x[row] \o [p \in 1..(max_len - Len(x[row])) |-> pad_value]]

\* `max_spec_len = max(spec_lens) + 1`, rounded up to a multiple of r.
NoExtraFrame(spec_lens, rr) ==
  LET m == MaxOf(spec_lens)
  IN IF m % rr # 0 THEN m + (rr - (m % rr)) ELSE m

MaxSpecLen(spec_lens, rr) ==
  LET m == MaxOf(spec_lens) + 1
  IN IF m % rr # 0 THEN m + (rr - (m % rr)) ELSE m

\* `-1 * hparams.max_abs_value` or 0
MelPadValue(hp) == IF hp.symmetric_mels THEN -1 * hp.max_abs_value ELSE 0

\* collate_synthesizer(batch, collate_r, hparams)
Collate ==
  LET x_lens == [i \in DOMAIN batch |-> Len(batch[i].text)]
      max_x_len == MaxOf(x_lens)
      spec_lens == [i \in DOMAIN batch |-> Len(batch[i].mel[1])]
      max_spec_len == MaxSpecLen(spec_lens, collate_r)
  IN /\ batch # <<>>
     /\ out_chars = <<>>
     /\ out_chars' = [i \in DOMAIN batch |-> Pad1d(batch[i].text, max_x_len, 0)]
     /\ out_mel' = [i \in DOMAIN batch |->
                      Pad2d(batch[i].mel, max_spec_len, MelPadValue(hparams))]
     /\ UNCHANGED <<batch, collate_r, cyclerVars, tacotronVars, ckptVars, normVars, melVars,
                    windowVars>>

InitCollate(batches, rs) ==
  /\ batch \in batches
  /\ collate_r \in rs
  /\ out_chars = <<>>
  /\ out_mel = <<>>

NextCollate ==
  \/ Collate

\* ------------------------------------------------------------ specifications

\* The utilities as the runs that are not about them leave them.
InitUtil ==
  /\ InitCkpt
  /\ InitNorm({DefaultConfig}, {<<>>})
  /\ InitMel
  /\ InitWindow({MaxWindow})
  /\ InitCollate({<<>>}, {1})

Init == InitCycler /\ InitTacotron({StopCut}) /\ InitUtil

InitAnyThreshold == InitCycler /\ InitTacotron(StopThresholds) /\ InitUtil

\* Any configuration, any spectrogram to normalize.
InitAnyNorm ==
  /\ InitCycler /\ InitTacotron({StopCut})
  /\ InitCkpt /\ InitMel /\ InitWindow({MaxWindow}) /\ InitCollate({<<>>}, {1})
  /\ InitNorm(Configs, Spectrograms)

\* Any window size.
InitAnyWindow ==
  /\ InitCycler /\ InitTacotron({StopCut})
  /\ InitCkpt /\ InitMel /\ InitCollate({<<>>}, {1})
  /\ InitNorm({DefaultConfig}, {<<>>})
  /\ InitWindow(1..MaxWindow)

\* Any configuration, any batch and any r to collate with.
InitAnyBatch ==
  /\ InitCycler /\ InitTacotron({StopCut})
  /\ InitCkpt /\ InitMel /\ InitWindow({MaxWindow})
  /\ InitNorm(Configs, {<<>>})
  /\ InitCollate(CollateBatches, 1..(MaxMel + 2))

SpecCycler == Init /\ [][NextCycler]_vars

SpecGen == InitAnyThreshold /\ [][NextGen]_vars

SpecAttn == Init /\ [][NextAttn]_vars

SpecConc == Init /\ [][NextConc]_vars

SpecFrames == Init /\ [][NextFrames]_vars

SpecStep == Init /\ [][NextStep]_vars

SpecCkpt == Init /\ [][NextCkpt]_vars

SpecNorm == InitAnyNorm /\ [][NextNorm]_vars

SpecMel == Init /\ [][NextMel]_vars

SpecWindow == InitAnyWindow /\ [][NextWindow]_vars

SpecCollate == InitAnyBatch /\ [][NextCollate]_vars

\* ------------------------------------------------------------ RandomCycler: properties

PoolSize == Len(all_items)

Occurrences(s, it) == Cardinality({k \in DOMAIN s : s[k] = it})

IsPermutationOf(s, l) ==
  /\ Len(s) = Len(l)
  /\ \A it \in Range(l) : Occurrences(s, it) = Occurrences(l, it)

\* C1: after any sequence of sample(count) and __next__ calls that returned m
\* items in total from a pool of n items, every pool item has been returned at
\* least m \div n and at most ((m - 1) \div n) + 1 times.
C1_Frequency ==
  cycler = "built" =>
    \A it \in Range(all_items) :
      /\ times[it] >= total \div PoolSize
      /\ times[it] <= ((total - 1) \div PoolSize) + 1

\* A call with count above n was made on a cycler with a partly drawn pending
\* list, two full rounds are out, and the items are not all returned equally often.
C1_Witness ==
  /\ cycler = "built"
  /\ PoolSize = 3
  /\ last_op = "sample"
  /\ last_count > PoolSize
  /\ ~fresh_call
  /\ total > 2 * PoolSize
  /\ \E a, b \in Range(all_items) : times[a] = 2 /\ times[b] = 3

\* C2: in the concatenation of everything returned, at most 2 * (n - 1) other
\* items lie between two consecutive returns of the same item.
C2_GapBound ==
  cycler = "built" => max_gap <= 2 * (PoolSize - 1)

\* C3 as stated: an empty pool makes the constructor fail with EmptyPoolError and
\* leaves no sampler; a non-empty pool gives an empty pending list and a copy of
\* the pool that no later change of the caller's collection reaches.
C3_EmptyPoolError ==
  /\ [][(cycler = "absent" /\ cycler' # "absent") =>
          IF source' = <<>>
            THEN cycler' = "raised" /\ raised' = "EmptyPoolError"
                 /\ all_items' = <<>> /\ next_items' = <<>>
            ELSE cycler' = "built" /\ raised' = ""
                 /\ all_items' = source' /\ next_items' = <<>>]_vars
  /\ [][cycler = "built" => all_items' = all_items]_vars

\* C3 amended: the same, the exception being a plain Exception.
C3_EmptyPoolException ==
  /\ [][(cycler = "absent" /\ cycler' # "absent") =>
          IF source' = <<>>
            THEN cycler' = "raised" /\ raised' = "Exception"
                 /\ all_items' = <<>> /\ next_items' = <<>>
            ELSE cycler' = "built" /\ raised' = ""
                 /\ all_items' = source' /\ next_items' = <<>>]_vars
  /\ [][cycler = "built" => all_items' = all_items]_vars

\* The constructor was given an empty collection and raised.
C3_Witness ==
  cycler = "raised" /\ source = <<>> /\ raised # ""

\* C4: in every reachable state of a built cycler and for every count >= 0,
\* sample(count) ends and returns exactly count items, all of the pool; __next__
\* returns one pool item, the first item of the list sample(1) returned; the
\* stored pool is still the pool the cycler was built from.
\* (Every call made is checked on its result; in every state the calls with
\* count 0..n, to which a larger count comes down after its whole rounds, are
\* checked on all results they can have.)
C4_SampleResult ==
  cycler = "built" =>
    /\ \A count \in 0..PoolSize :
         LET results == SampleRun(all_items, count, next_items, <<>>)
         IN /\ results # {}
            /\ \A res \in results :
                 /\ Len(res.out) = count
                 /\ Range(res.out) \subseteq Range(built_from)
    /\ last_op = "sample" =>
         Len(out) = last_count /\ Range(out) \subseteq Range(built_from)
    /\ last_op = "next" =>
         Len(out) = 1 /\ next_ret = out[1] /\ next_ret \in Range(built_from)
    /\ all_items = built_from

\* A __next__ call has returned an item after sample calls drew from the pool.
C4_Witness ==
  /\ cycler = "built"
  /\ last_op = "next"
  /\ next_ret \in Range(all_items)
  /\ total > PoolSize
  /\ source # all_items

\* C5: a sample(count) call with count >= n returns a permutation of the pool
\* as its first n items; on a cycler nothing was drawn from, every item occurs
\* count \div n or (count \div n) + 1 times in the result.
C5_WholeRounds ==
  (cycler = "built" /\ last_op = "sample" /\ last_count >= PoolSize) =>
    /\ IsPermutationOf(SubSeq(out, 1, PoolSize), all_items)
    /\ fresh_call =>
         \A it \in Range(all_items) :
           Occurrences(out, it) \in
             {last_count \div PoolSize, (last_count \div PoolSize) + 1}

\* Pool [1, 2, 3], sample(7) as the first call: 7 items returned.
C5_Witness ==
  /\ cycler = "built"
  /\ all_items = <<1, 2, 3>>
  /\ last_op = "sample"
  /\ last_count = 7
  /\ fresh_call
  /\ Len(out) = 7

\* sample(n) was called while a partly drawn permutation was pending.
C5_WitnessPending ==
  /\ cycler = "built"
  /\ last_op = "sample"
  /\ last_count = PoolSize
  /\ ~fresh_call
  /\ next_items # <<>>
  /\ Len(next_items) < PoolSize

\* ------------------------------------------------------------ Tacotron: properties

Last(l) == l[Len(l)]

\* The element-wise sum of a list of score matrices over the batch x.
RECURSIVE MatSum(_, _)
MatSum(l, x) == IF l = <<>> THEN Zeros(x) ELSE MatAdd(MatSum(SubSeq(l, 1, Len(l) - 1), x), Last(l))

InGenerate(c) == call[c].mode = "generate"

\* C6 as stated: a generate call never runs more than `steps` decoder steps
\* and never leaves the loop early before decoder step 10.
C6_WarmUpSteps ==
  \A c \in Callers :
    InGenerate(c) =>
      /\ call[c].nsteps <= call[c].steps
      /\ call[c].exit = "break" => call[c].nsteps >= WarmUp

\* C6 amended: a generate call never runs more than ceil(steps / r) decoder
\* steps (so never more than `steps`), and it leaves the loop early only at a
\* decoder step whose frame index t = r * (nsteps - 1) is above 10, that is
\* not before decoder step (10 \div r) + 2.
C6_WarmUpFrames ==
  \A c \in Callers :
    InGenerate(c) =>
      /\ call[c].nsteps <= call[c].steps
      /\ r * call[c].nsteps < call[c].steps + r
      /\ call[c].exit = "break" =>
           /\ call[c].t = r * (call[c].nsteps - 1)
           /\ call[c].t > WarmUp
           /\ call[c].nsteps >= (WarmUp \div r) + 2

\* With r = 2 the loop was left early at its 7th decoder step (t = 12), with
\* both batch elements above the threshold.
C6_Witness ==
  /\ r = 2
  /\ InGenerate(1)
  /\ call[1].exit = "break"
  /\ call[1].nsteps = 7
  /\ BatchOf(call[1].x) = 2

\* C7: after every decoder step of a generate call, the loop has been left early
\* exactly if every batch element's stop probability exceeds the configured
\* stop_threshold and the warm-up is over; no step runs after that step.
C7_ConfiguredThreshold ==
  \A c \in Callers :
    (InGenerate(c) /\ call[c].nsteps >= 1) =>
      /\ (call[c].exit = "break") <=>
           (AllExceed(call[c].stop_tokens, stop_threshold) /\ call[c].t > WarmUp)
      /\ call[c].exit = "break" => call[c].pc = "post"

\* C8: after every decoder step the attention weights of every batch element
\* are 0 at the padding positions (character index 0) and sum to 1 over the
\* other positions.
C8_PaddingMasked ==
  \A c \in Callers :
    call[c].nsteps >= 1 =>
      \A b \in 1..BatchOf(call[c].x) :
        /\ \A p \in 1..TimeOf(call[c].x) :
             call[c].x[b][p] = 0 => attention[b][p] = 0
        /\ SeqSum([p \in 1..TimeOf(call[c].x) |->
                     IF call[c].x[b][p] # 0 THEN attention[b][p] ELSE 0]) = One

Shrinks(a, b) ==
  \/ DOMAIN a # DOMAIN b
  \/ \E i \in DOMAIN a : DOMAIN a[i] # DOMAIN b[i]
  \/ \E i \in DOMAIN a : \E p \in DOMAIN a[i] : b[i][p] < a[i][p]

FirstStepOf(c) == call[c].nsteps = 0 /\ call'[c].nsteps = 1

Returns(c) == call[c].pc = "post" /\ call'[c].pc = "idle"

\* C9: within a decode sequence the accumulator is, after every step, the
\* element-wise sum of the attention weights of the steps of that sequence so
\* far (and attention the weights of the last step); once set it is never None
\* again, it shrinks at no position and keeps its shape except in a step with
\* index 0, and the return of a forward or generate call leaves it as it is.
C9_Accumulator ==
  /\ [](\A c \in Callers :
          call[c].nsteps >= 1 =>
            /\ cumulative = MatSum(call[c].attn_scores, call[c].x)
            /\ attention = Last(call[c].attn_scores))
  /\ [][cumulative # <<>> =>
          /\ cumulative' # <<>>
          /\ Shrinks(cumulative, cumulative') => \E c \in Callers : FirstStepOf(c)
          /\ \A c \in Callers : Returns(c) => cumulative' = cumulative]_vars

\* The second forward call on the model has run two steps: its step 0 has
\* replaced the accumulator the first call left behind.
C9_Witness ==
  /\ step = 2
  /\ call[1].mode = "forward"
  /\ call[1].nsteps = 2
  /\ cumulative = MatSum(call[1].attn_scores, call[1].x)
  /\ cumulative # Zeros(call[1].x)

\* C10 as stated: every decode sequence has its own accumulator, holding the
\* weights of its own steps only, and no accumulator is left once the calls
\* have returned.
C10_PrivateState ==
  /\ \A c \in Callers :
       call[c].nsteps >= 1 => cumulative = MatSum(call[c].attn_scores, call[c].x)
  /\ (\A c \in Callers : call[c].pc = "idle") => cumulative = <<>>

\* C10 amended: the recurrent state bundle, the context vector and the other
\* locals of a call are written by that call's own steps only and are gone when
\* it returns; the accumulator and the last weights are fields of the one
\* attention module: every step of either call adds its weights to what is
\* there (starting from zero when its index is 0), and the return of a call
\* leaves them in place.
C10_LocalsPrivate ==
  /\ [][\A c \in Callers :
          call'[c] # call[c] => \A d \in Callers \ {c} : call'[d] = call[d]]_vars
  /\ [](\A c \in Callers :
          /\ call[c].pc = "idle" => call[c] = IdleCall
          /\ call[c].nsteps >= 1 =>
               /\ call[c].hidden = call[c].nsteps
               /\ call[c].context = Last(call[c].attn_scores))
  /\ [][\A c \in Callers :
          /\ Returns(c) => cumulative' = cumulative /\ attention' = attention
          /\ call'[c].nsteps = call[c].nsteps + 1 =>
               /\ attention' = Last(call'[c].attn_scores)
               /\ cumulative' =
                    MatAdd(IF call'[c].t = 0 THEN Zeros(call[c].x) ELSE cumulative,
                           attention')]_vars

\* Call 1 has run its second step while call 2 is inside its decode loop, and
\* the accumulator holds something else than the weights of call 1's own steps;
\* call 1's recurrent state still counts its own two steps.
C10_Witness ==
  /\ call[1].nsteps = 2 /\ call[1].t > 0
  /\ call[2].pc = "loop" /\ call[2].nsteps >= 1
  /\ cumulative # MatSum(call[1].attn_scores, call[1].x)
  /\ call[1].hidden = 2
  /\ call[1].context = Last(call[1].attn_scores)

\* ------------------------------------------------------------ audio utilities: properties

Normalized == norm_out # <<>> \/ norm_raised # ""

OutOfRange(S, hp) == \E i \in DOMAIN S : S[i] > 0 \/ S[i] < hp.min_level_db

\* C11 as stated: whatever _normalize accepts, _denormalize of what it
\* returned is the spectrogram it was given.
C11_RoundTrip ==
  denorm_out # <<>> =>
    denorm_out = [i \in DOMAIN norm_in |-> RatInt(norm_in[i])]

\* C11 amended: the round trip gives back every value that lies within
\* [min_level_db, 0]; a value outside (which only a configuration with
\* clipping accepts) comes back as the end of that range nearest to it.
C11_RoundTripInRange ==
  denorm_out # <<>> =>
    /\ DOMAIN denorm_out = DOMAIN norm_in
    /\ \A i \in DOMAIN norm_in :
         /\ (hparams.min_level_db <= norm_in[i] /\ norm_in[i] <= 0) =>
              denorm_out[i] = RatInt(norm_in[i])
         /\ norm_in[i] > 0 =>
              hparams.allow_clipping_in_normalization /\ denorm_out[i] = RatInt(0)
         /\ norm_in[i] < hparams.min_level_db =>
              /\ hparams.allow_clipping_in_normalization
              /\ denorm_out[i] = RatInt(hparams.min_level_db)

\* With clipping, a spectrogram with one value above 0 dB and one strictly
\* inside the range went through _normalize and _denormalize.
C11_Witness ==
  /\ hparams.allow_clipping_in_normalization
  /\ hparams.symmetric_mels
  /\ denorm_out # <<>>
  /\ \E i, j \in DOMAIN norm_in :
       /\ norm_in[i] > 0
       /\ denorm_out[i] = RatInt(0)
       /\ hparams.min_level_db < norm_in[j] /\ norm_in[j] < 0
       /\ denorm_out[j] = RatInt(norm_in[j])

\* C12: without clipping, _normalize of a spectrogram with a value above 0 dB
\* or below min_level_db raises AssertionError and returns nothing; with
\* clipping it never raises and every value returned lies in
\* [-max_abs_value, max_abs_value] (symmetric) or [0, max_abs_value].
C12_AssertOrClip ==
  Normalized =>
    IF ~hparams.allow_clipping_in_normalization
      THEN OutOfRange(norm_in, hparams) =>
             norm_raised = "AssertionError" /\ norm_out = <<>>
      ELSE /\ norm_raised = ""
           /\ DOMAIN norm_out = DOMAIN norm_in
           /\ \A i \in DOMAIN norm_out :
                LET lo == IF hparams.symmetric_mels THEN -hparams.max_abs_value ELSE 0
                IN /\ lo * norm_out[i].d <= norm_out[i].n
                   /\ norm_out[i].n <= hparams.max_abs_value * norm_out[i].d

\* Without clipping, a spectrogram whose values are all at most 0 dB, one of
\* them below min_level_db, was refused.
C12_Witness ==
  /\ ~hparams.allow_clipping_in_normalization
  /\ norm_raised = "AssertionError"
  /\ norm_out = <<>>
  /\ \A i \in DOMAIN norm_in : norm_in[i] <= 0
  /\ \E i \in DOMAIN norm_in : norm_in[i] < hparams.min_level_db

\* ------------------------------------------------------------ checkpoints: properties

\* C13: a load restores the parameters (and buffers) from the checkpoint and
\* raises nothing, whether or not the checkpoint has an optimizer_state field;
\* it replaces the optimizer's state exactly when the field is there and an
\* optimizer is passed, and leaves it as it is otherwise; a save writes the
\* optimizer_state field exactly when an optimizer is passed, and changes
\* neither the model nor the optimizer.
C13_OptimizerOptional ==
  [][ckpt_op'.tick # ckpt_op.tick =>
       IF ckpt_op'.op = "load"
         THEN /\ ckpt_op'.raised = ""
              /\ StateDict' = checkpoint.model_state
              /\ opt_state' =
                   IF "optimizer_state" \in checkpoint.keys /\ ckpt_op'.optimizer
                     THEN checkpoint.optimizer_state
                     ELSE opt_state
              /\ checkpoint' = checkpoint
         ELSE /\ ckpt_op'.op = "save"
              /\ "model_state" \in checkpoint'.keys
              /\ ("optimizer_state" \in checkpoint'.keys) <=> ckpt_op'.optimizer
              /\ checkpoint'.model_state = StateDict
              /\ ckpt_op'.optimizer => checkpoint'.optimizer_state = opt_state
              /\ StateDict' = StateDict
              /\ opt_state' = opt_state]_vars

\* A checkpoint saved without an optimizer was loaded with one: the parameters
\* are the saved ones, the optimizer still has the state it had.
C13_Witness ==
  /\ ckpt_op.op = "load"
  /\ ckpt_op.optimizer
  /\ ckpt_op.raised = ""
  /\ "optimizer_state" \notin checkpoint.keys
  /\ StateDict = checkpoint.model_state
  /\ weights # 0
  /\ opt_state # 0

\* ------------------------------------------------------------ frame groups and the step counter

\* C14: with r in 1..20, the group a decoder step emits has r frames, so after
\* k steps of a forward or generate call k * r mel frames and k * r stop
\* entries are accumulated, the r entries of the last group all being that
\* step's stop probabilities; a forward call over a target of T frames ends
\* after ceil(T / r) steps, with exactly T frames when r divides T.
C14_FrameGroups ==
  \A c \in Callers :
    call[c].nsteps >= 1 =>
      /\ r \in 1..20
      /\ call[c].mel_group = r
      /\ call[c].mel_frames = call[c].nsteps * r
      /\ call[c].stop_len = call[c].nsteps * r
      /\ Len(call[c].stop_group) = r
      /\ \A i \in 1..r : call[c].stop_group[i] = call[c].stop_tokens
      /\ (call[c].mode = "forward" /\ call[c].pc = "post") =>
           /\ call[c].nsteps = (call[c].steps + r - 1) \div r
           /\ call[c].steps % r = 0 => call[c].mel_frames = call[c].steps

\* r = 5, batch 1: a forward call over a target of 10 frames has run its two
\* steps and holds 10 frames.
C14_Witness ==
  /\ r = 5
  /\ call[1].mode = "forward"
  /\ BatchOf(call[1].x) = 1
  /\ call[1].steps = 10
  /\ call[1].pc = "post"
  /\ call[1].nsteps = 2
  /\ call[1].mel_group = 5
  /\ call[1].mel_frames = 10

ForwardEntered ==
  \E c \in Callers :
    call[c].pc = "idle" /\ call'[c].mode = "forward" /\ call'[c].nsteps = 0

\* C19: the step counter starts at 0; a forward call adds exactly 1 to it at
\* its entry, before any decoder step, also when the call then raises;
\* nothing else but reset_step changes it (no generate call, no decoder step,
\* no return); after reset_step it is 1; get_step returns it.
C19_StepCounter ==
  /\ step = 0
  /\ [](step_op = "reset_step" => step = 1)
  /\ [](step_op = "get_step" => step_ret = step)
  /\ [][/\ ForwardEntered => step' = step + 1
        /\ (step_op' = "forward_raised" /\ <<step, step_op>>' # <<step, step_op>>) =>
             step' = step + 1 /\ call' = call
        /\ step_op' = "generate" => step' = step
        /\ step' # step =>
             \/ ForwardEntered
             \/ step_op' \in {"forward_raised", "reset_step"}]_vars

\* After get_step returned 1 a forward call raised: the counter is 2.
C19_Witness ==
  /\ step_op = "forward_raised"
  /\ step_ret = 1
  /\ step = 2

\* ------------------------------------------------------------ RandomCycler: the pending buffer

IsSuffixOf(s, l) ==
  Len(s) <= Len(l) /\ s = SubSeq(l, Len(l) - Len(s) + 1, Len(l))

\* s occurs in l as one run of consecutive items.
IsRunOf(s, l) ==
  \E k \in 0..(Len(l) - Len(s)) : SubSeq(l, k + 1, k + Len(s)) = s

\* C15: the pending buffer holds at most n items, all of the pool and none
\* more often than the pool has it; a step changes it only by drawing items
\* off its front, or, once all its items were drawn in buffer order by the
\* call, by putting (the rest of) a fresh permutation in its place; a sample
\* call for k * n items (k >= 1), which emits only whole permutations, leaves
\* it as it was.
C15_PendingBuffer ==
  /\ [](cycler = "built" =>
          /\ Len(next_items) <= PoolSize
          /\ \A it \in Range(next_items) :
               /\ it \in Range(all_items)
               /\ Occurrences(next_items, it) <= Occurrences(all_items, it))
  /\ [][cycler = "built" =>
          /\ \/ IsSuffixOf(next_items', next_items)
             \/ IsRunOf(next_items, out')
          /\ (last_op' = "sample" /\ total' > total /\ last_count' % PoolSize = 0) =>
               next_items' = next_items]_vars

\* Pool of 3: after one item was drawn, sample(6) has emitted two whole
\* permutations and the two pending items are still pending.
C15_Witness ==
  /\ cycler = "built"
  /\ PoolSize = 3
  /\ last_op = "sample"
  /\ last_count = 6
  /\ ~fresh_call
  /\ Len(next_items) = 2
  /\ Len(out) = 6

\* C16: a sample(count) call emits whole fresh permutations only while the
\* count left exceeds n, that is (count - 1) \div n of them; the items that
\* follow, at most n, start with the items at the front of the pending buffer,
\* in buffer order.
C16_BypassOnlyAbove ==
  [][(cycler = "built" /\ last_op' = "sample" /\ total' > total) =>
       LET rounds == (last_count' - 1) \div PoolSize
           left == last_count' - rounds * PoolSize
           k == Min(left, Len(next_items))
       IN SubSeq(out', rounds * PoolSize + 1, rounds * PoolSize + k)
            = SubSeq(next_items, 1, k)]_vars

\* ------------------------------------------------------------ mel basis, ValueWindow, collate: properties

\* C17: the basis a conversion uses is the one built from the hparams passed
\* to that call (its pseudo-inverse for _mel_to_linear), and no
\* configuration's basis is built more than once.
C17_BasisPerConfig ==
  /\ (mel_call.op # "none" /\ mel_call.raised = "") =>
       mel_call.used =
         IF mel_call.op = "linear_to_mel"
           THEN BuildMelBasis(mel_call.hparams)
           ELSE Pinv(BuildMelBasis(mel_call.hparams))
  /\ \A hp \in MelConfigs : builds[hp] <= 1

\* The last min(k, size) of the k values in l.
LastOf(l, size) == SubSeq(l, Len(l) - Min(Len(l), size) + 1, Len(l))

\* C18: count never exceeds window_size, the stored values are the last
\* min(k, window_size) of the k values appended since the last reset, in
\* append order, and the average of an empty window is 0.
C18_Window ==
  /\ WindowCount(values) <= window_size
  /\ values = LastOf(appended, window_size)
  /\ values = <<>> => WindowAverage(values).n = 0

MelLen(sample) == Len(sample.mel[1])

LongestMel == CHOOSE m \in {MelLen(batch[i]) : i \in DOMAIN batch} :
                \A i \in DOMAIN batch : MelLen(batch[i]) <= m

LongestText == CHOOSE m \in {Len(batch[i].text) : i \in DOMAIN batch} :
                 \A i \in DOMAIN batch : Len(batch[i].text) <= m

Collated == out_chars # <<>>

\* C20: every mel spectrogram of the batch is padded to the same length L, the
\* smallest multiple of r strictly above the longest one (so every sample
\* gets a padding frame and L exceeds the longest by at most r), its frames
\* kept and followed by the padding value, -max_abs_value for symmetric mels
\* and 0 otherwise; every text is padded with 0 to the longest text.
C20_Padding ==
  Collated =>
    LET L == Len(out_mel[1][1])
        pad == IF hparams.symmetric_mels THEN -hparams.max_abs_value ELSE 0
    IN /\ DOMAIN out_mel = DOMAIN batch
       /\ DOMAIN out_chars = DOMAIN batch
       /\ L % collate_r = 0
       /\ L > LongestMel
       /\ L - collate_r <= LongestMel
       /\ \A i \in DOMAIN batch :
            /\ DOMAIN out_mel[i] = DOMAIN batch[i].mel
            /\ \A row \in DOMAIN out_mel[i] :
                 /\ Len(out_mel[i][row]) = L
                 /\ L > Len(batch[i].mel[row])
                 /\ \A p \in 1..L :
                      out_mel[i][row][p] =
                        IF p <= Len(batch[i].mel[row]) THEN batch[i].mel[row][p] ELSE pad
            /\ Len(out_chars[i]) = LongestText
            /\ \A p \in 1..LongestText :
                 out_chars[i][p] =
                   IF p <= Len(batch[i].text) THEN batch[i].text[p] ELSE 0

\* Symmetric mels, r = 3, spectrograms of 3 and 1 frames, texts of different
\* lengths: both are padded to 6 frames.
C20_Witness ==
  /\ Collated
  /\ hparams.symmetric_mels
  /\ collate_r = 3
  /\ Len(batch) = 2
  /\ MelLen(batch[1]) = 3 /\ MelLen(batch[2]) = 1
  /\ Len(batch[1].text) < Len(batch[2].text)
  /\ Len(out_mel[1][1]) = 6
  /\ out_mel[2][1][2] = -hparams.max_abs_value
  /\ out_chars[1][LongestText] = 0

====
